---- MODULE Spec2Model ----
(***************************************************************************)
(* testcontainers-keycloak: the translation of container options into a   *)
(* launch request (RunContainer and the With... customizers), the URL      *)
(* derivation of the container handle, and the admin client's token and    *)
(* client-lookup requests.                                                 *)
(*                                                                         *)
(* The TLS-aware version of keycloak.go is the one the tests compile       *)
(* against (WithTLS, keycloakHttpsPort); its text is kept in               *)
(* src/README.md, lines 89-307.  src/keycloak.go holds an older variant of *)
(* the same functions; processKeycloakArgs, WithAdminUsername,             *)
(* WithAdminPassword and WithContextPath are identical in both.            *)
(***************************************************************************)
EXTENDS Integers, Sequences, FiniteSets, TLC

(***************************************************************************)
(* Package constants                                                       *)
(***************************************************************************)
defaultRealmImport == "/opt/keycloak/data/import/"
defaultProviders == "/opt/keycloak/providers/"
tlsFilePath == "/opt/keycloak/conf"
defaultKeycloakAdminUsername == "admin"
defaultKeycloakAdminPassword == "admin"
defaultKeycloakContextPath == "/"
keycloakAdminUsernameEnv == "KEYCLOAK_ADMIN"
keycloakAdminPasswordEnv == "KEYCLOAK_ADMIN_PASSWORD"
keycloakContextPathEnv == "KEYCLOAK_CONTEXT_PATH"
keycloakTlsEnv == "KEYCLOAK_TLS"
keycloakStartupCommand == "start-dev"
keycloakPort == "8080/tcp"
keycloakHttpsPort == "8443/tcp"
FileMode == 493  \* 0o755

(***************************************************************************)
(* Bounds and input sets                                                   *)
(***************************************************************************)
\* Number of customizers one RunContainer call is given.
MaxOpts == 3

\* Host paths are sequences of path segments ("testdata/tls.crt" is
\* <<"testdata", "tls.crt">>), so that filepath.Base is computed.
RealmFiles == { <<"testdata", "realm-export.json">> }
ProviderArgs == { <<>>, << <<"providers", "a.jar">>, <<"b.jar">> >> }
CertFile == <<"testdata", "tls.crt">>
KeyFile == <<"testdata", "tls.key">>
ContextPaths == {"", "/auth"}
Usernames == {"", "testUsername"}
Passwords == {"", "testPassword"}

\* What the container runtime may answer to Host and MappedPort.
Err == "error"
Hosts == {"localhost"}
HostPortOf(containerPort) == IF containerPort = keycloakHttpsPort THEN "32769" ELSE "32768"

(***************************************************************************)
(* Helpers for Go values                                                   *)
(***************************************************************************)
\* A nil pointer, and a pointer to the value v.
Nil == [kind |-> "nil"]
Ptr(v) == [kind |-> "ptr", val |-> v]
NoCall == [op |-> "none"]

\* m[k] of a Go map[string]string: the zero value "" for an absent key.
EnvGet(env, k) == IF k \in DOMAIN env THEN env[k] ELSE ""

\* m[k] = v of a Go map.
EnvSet(env, k, v) == [x \in (DOMAIN env) \cup {k} |-> IF x = k THEN v ELSE env[x]]

\* filepath.Base: the last element of the path, "." for the empty path.
Base(path) == IF Len(path) = 0 THEN "." ELSE path[Len(path)]

ContainerFile(hostPath, containerPath) ==
    [HostFilePath |-> hostPath, ContainerFilePath |-> containerPath, FileMode |-> FileMode]

(***************************************************************************)
(* processKeycloakArgs                                                     *)
(***************************************************************************)
\* Variant: the start verb is prepended on every call.
processKeycloakArgsAlwaysPrepend(cmd, args) == <<keycloakStartupCommand>> \o cmd \o args

\* Variant: a command that does not begin with the start verb is replaced.
processKeycloakArgsClobber(cmd, args) ==
    IF Len(cmd) = 0 \/ cmd[1] # keycloakStartupCommand
    THEN <<keycloakStartupCommand>> \o args
    ELSE cmd \o args

processKeycloakArgs(cmd, args) ==
    IF Len(cmd) = 0
    THEN <<keycloakStartupCommand>> \o args
    ELSE IF cmd[1] = keycloakStartupCommand
         THEN cmd \o args
         ELSE (<<keycloakStartupCommand>> \o cmd) \o args

(***************************************************************************)
(* The customizers, as functions of the launch request                     *)
(***************************************************************************)
\* Variant: the file copy of the realm replaces the copies registered so far.
WithRealmImportFileResetFiles(realmImportFile, r) ==
    [r EXCEPT !.Files = <<ContainerFile(realmImportFile,
                                        defaultRealmImport \o Base(realmImportFile))>>,
              !.Cmd = processKeycloakArgs(@, <<"--import-realm">>)]

WithRealmImportFile(realmImportFile, r) ==
    [r EXCEPT !.Files = Append(@, ContainerFile(realmImportFile,
                                   defaultRealmImport \o Base(realmImportFile))),
              !.Cmd = processKeycloakArgs(@, <<"--import-realm">>)]

RECURSIVE ProviderFilesOf(_)
ProviderFilesOf(providerFiles) ==
    IF providerFiles = <<>>
    THEN <<>>
    ELSE <<ContainerFile(Head(providerFiles), defaultProviders \o Base(Head(providerFiles)))>>
         \o ProviderFilesOf(Tail(providerFiles))

\* Variant: the providers option also passes through the merge of the command.
WithProvidersMergingCommand(providerFiles, r) ==
    [r EXCEPT !.Files = @ \o ProviderFilesOf(providerFiles),
              !.Cmd = processKeycloakArgs(@, <<>>)]

WithProviders(providerFiles, r) ==
    [r EXCEPT !.Files = @ \o ProviderFilesOf(providerFiles)]

TLSFlags ==
    << "--https-certificate-file=" \o tlsFilePath \o "/tls.crt",
       "--https-certificate-key-file=" \o tlsFilePath \o "/tls.key" >>

\* Variant: the TLS port is added to the exposed ports instead of replacing them.
WithTLSKeepPorts(certFile, keyFile, r) ==
    [r EXCEPT !.ExposedPorts = Append(@, keycloakHttpsPort),
              !.Files = @ \o << ContainerFile(certFile, tlsFilePath \o "/tls.crt"),
                                ContainerFile(keyFile, tlsFilePath \o "/tls.key") >>,
              !.Env = EnvSet(@, keycloakTlsEnv, "true"),
              !.Cmd = processKeycloakArgs(@, TLSFlags)]

\* Variant: the exposed ports stay as they were.
WithTLSPortsUnchanged(certFile, keyFile, r) ==
    [r EXCEPT !.Files = @ \o << ContainerFile(certFile, tlsFilePath \o "/tls.crt"),
                                ContainerFile(keyFile, tlsFilePath \o "/tls.key") >>,
              !.Env = EnvSet(@, keycloakTlsEnv, "true"),
              !.Cmd = processKeycloakArgs(@, TLSFlags)]

WithTLS(certFile, keyFile, r) ==
    [r EXCEPT !.ExposedPorts = <<keycloakHttpsPort>>,
              !.Files = @ \o << ContainerFile(certFile, tlsFilePath \o "/tls.crt"),
                                ContainerFile(keyFile, tlsFilePath \o "/tls.key") >>,
              !.Env = EnvSet(@, keycloakTlsEnv, "true"),
              !.Cmd = processKeycloakArgs(@, TLSFlags)]

\* Variant: the empty username is recorded as it is.
WithAdminUsernameNoDefault(username, r) ==
    [r EXCEPT !.Env = EnvSet(@, keycloakAdminUsernameEnv, username)]

WithAdminUsername(username, r) ==
    LET u == IF username = "" THEN defaultKeycloakAdminUsername ELSE username
    IN  [r EXCEPT !.Env = EnvSet(@, keycloakAdminUsernameEnv, u)]

WithAdminPassword(password, r) ==
    LET p == IF password = "" THEN defaultKeycloakAdminPassword ELSE password
    IN  [r EXCEPT !.Env = EnvSet(@, keycloakAdminPasswordEnv, p)]

\* Variant: the empty context path is passed through without the default.
WithContextPathNoDefault(contextPath, r) ==
    [r EXCEPT !.Env = EnvSet(@, keycloakContextPathEnv, contextPath),
              !.Cmd = processKeycloakArgs(@, <<"--http-relative-path=" \o contextPath>>)]

\* Variant: the environment keeps the context path recorded first.
WithContextPathFirstRecorded(contextPath, r) ==
    LET c == IF contextPath = "" THEN defaultKeycloakContextPath ELSE contextPath
    IN  [r EXCEPT !.Env = IF keycloakContextPathEnv \in DOMAIN @
                          THEN @ ELSE EnvSet(@, keycloakContextPathEnv, c),
                  !.Cmd = processKeycloakArgs(@, <<"--http-relative-path=" \o c>>)]

WithContextPath(contextPath, r) ==
    LET c == IF contextPath = "" THEN defaultKeycloakContextPath ELSE contextPath
    IN  [r EXCEPT !.Env = EnvSet(@, keycloakContextPathEnv, c),
                  !.Cmd = processKeycloakArgs(@, <<"--http-relative-path=" \o c>>)]

\* The caller-supplied customizer of the tests: appends to the command as it is.
WithCustomOption(r) == [r EXCEPT !.Cmd = Append(@, "--health-enabled=false")]

\* testcontainers.WithWaitStrategy(wait.ForListeningPort("8080/tcp")).
WithWaitStrategy(r) ==
    [r EXCEPT !.WaitingFor = [kind |-> "ForListeningPort", port |-> keycloakPort]]

(***************************************************************************)
(* Options as values, and their application                                *)
(***************************************************************************)
Opt(kind, arg) == [kind |-> kind, arg |-> arg]

Customize(opt, r) ==
    CASE opt.kind = "WithContextPath" -> WithContextPath(opt.arg, r)
      [] opt.kind = "WithRealmImportFile" -> WithRealmImportFile(opt.arg, r)
      [] opt.kind = "WithProviders" -> WithProviders(opt.arg, r)
      [] opt.kind = "WithTLS" -> WithTLS(opt.arg[1], opt.arg[2], r)
      [] opt.kind = "WithAdminUsername" -> WithAdminUsername(opt.arg, r)
      [] opt.kind = "WithAdminPassword" -> WithAdminPassword(opt.arg, r)
      [] opt.kind = "WithCustomOption" -> WithCustomOption(r)
      [] opt.kind = "WithWaitStrategy" -> WithWaitStrategy(r)

\* The request RunContainer builds before it applies the options.
InitialRequest ==
    [Env |-> [k \in {keycloakAdminUsernameEnv, keycloakAdminPasswordEnv} |->
                 IF k = keycloakAdminUsernameEnv THEN defaultKeycloakAdminUsername
                                                  ELSE defaultKeycloakAdminPassword],
     ExposedPorts |-> <<keycloakPort>>,
     Cmd |-> <<>>,
     Files |-> <<>>,
     WaitingFor |-> [kind |-> "nil"]]

\* The default readiness condition RunContainer installs.
DefaultWaitingFor(r) ==
    LET cp == IF EnvGet(r.Env, keycloakContextPathEnv) = ""
              THEN defaultKeycloakContextPath
              ELSE EnvGet(r.Env, keycloakContextPathEnv)
    IN  IF EnvGet(r.Env, keycloakTlsEnv) # ""
        THEN [kind |-> "ForAll", path |-> cp, port |-> keycloakHttpsPort, tls |-> TRUE,
              allowInsecure |-> TRUE, log |-> "Running the server"]
        ELSE [kind |-> "ForAll", path |-> cp, port |-> "default", tls |-> FALSE,
              allowInsecure |-> FALSE, log |-> "Running the server"]

\* Variant: the default readiness condition replaces the one a customizer set.
FinalRequestAlwaysDefault(r) == [r EXCEPT !.WaitingFor = DefaultWaitingFor(r)]

\* The request handed to testcontainers.GenericContainer.
FinalRequest(r) ==
    IF r.WaitingFor.kind = "nil" THEN [r EXCEPT !.WaitingFor = DefaultWaitingFor(r)] ELSE r

\* Variant: the handle keeps the default credentials, not those of the request.
NewKeycloakContainerDefaultCredentials(r) ==
    [username |-> defaultKeycloakAdminUsername,
     password |-> defaultKeycloakAdminPassword,
     contextPath |-> EnvGet(r.Env, keycloakContextPathEnv),
     enableTLS |-> EnvGet(r.Env, keycloakTlsEnv) # ""]

\* The handle RunContainer returns for a started container.
NewKeycloakContainer(r) ==
    [username |-> EnvGet(r.Env, keycloakAdminUsernameEnv),
     password |-> EnvGet(r.Env, keycloakAdminPasswordEnv),
     contextPath |-> EnvGet(r.Env, keycloakContextPathEnv),
     enableTLS |-> EnvGet(r.Env, keycloakTlsEnv) # ""]

\* The loop of RunContainer over its options, from the request r.
RECURSIVE RunOptions(_, _)
RunOptions(opts, r) ==
    IF opts = <<>> THEN r ELSE RunOptions(Tail(opts), Customize(Head(opts), r))

(***************************************************************************)
(* GetAuthServerURL                                                        *)
(***************************************************************************)
\* The container port whose mapping GetAuthServerURL asks the runtime for.
QueriedPort(k) == IF k.enableTLS THEN keycloakHttpsPort ELSE keycloakPort

\* Variant: the scheme and port do not follow the TLS flag of the handle.
GetAuthServerURLPlain(k, host, mapped) ==
    IF host = Err
    THEN [url |-> "", err |-> "host"]
    ELSE IF mapped[keycloakPort] = Err
         THEN [url |-> "", err |-> "port"]
         ELSE [url |-> "http://" \o host \o ":" \o mapped[keycloakPort] \o k.contextPath,
               err |-> "nil"]

\* Variant: when the runtime reports no host or mapping, the URL is built on
\* the loopback host and the container port.
GetAuthServerURLFallback(k, host, mapped) ==
    LET h == IF host = Err THEN "localhost" ELSE host
    IN  IF k.enableTLS
        THEN [url |-> "https://" \o h \o ":"
                        \o (IF mapped[keycloakHttpsPort] = Err THEN "8443"
                            ELSE mapped[keycloakHttpsPort]) \o k.contextPath,
              err |-> "nil"]
        ELSE [url |-> "http://" \o h \o ":"
                        \o (IF mapped[keycloakPort] = Err THEN "8080"
                            ELSE mapped[keycloakPort]) \o k.contextPath,
              err |-> "nil"]

\* host: the runtime's answer to Host; mapped: its answer to MappedPort, per port.
GetAuthServerURL(k, host, mapped) ==
    IF host = Err
    THEN [url |-> "", err |-> "host"]
    ELSE IF k.enableTLS
         THEN IF mapped[keycloakHttpsPort] = Err
              THEN [url |-> "", err |-> "port"]
              ELSE [url |-> "https://" \o host \o ":" \o mapped[keycloakHttpsPort] \o k.contextPath,
                    err |-> "nil"]
         ELSE IF mapped[keycloakPort] = Err
              THEN [url |-> "", err |-> "port"]
              ELSE [url |-> "http://" \o host \o ":" \o mapped[keycloakPort] \o k.contextPath,
                    err |-> "nil"]

(***************************************************************************)
(* The admin client (admin.go)                                             *)
(***************************************************************************)
adminClientID == "admin-cli"
masterRealm == "master"

\* Bounds of the admin client's runs.
MaxCalls == 3      \* calls made on the admin API by the caller
MaxClients == 3    \* length of the client list the server returns

\* HTTP responses.  A response is a transport error, or a status with a body;
\* a body is text that is not JSON, a JSON object or a JSON array of objects.
TransportError == [kind |-> "transport_error"]
Response(status, body) == [kind |-> "response", status |-> status, body |-> body]
Garbage == [type |-> "garbage"]
JsonObject(fields) == [type |-> "object", fields |-> fields]
JsonArray(items) == [type |-> "array", items |-> items]

\* json.NewDecoder(body).Decode(&token): a JSON object decodes into a Token,
\* absent fields keep their zero value, unknown fields are ignored.
DecodeToken(body) ==
    IF body.type = "object"
    THEN [err |-> "nil",
          token |-> [AccessToken |-> IF "access_token" \in DOMAIN body.fields
                                     THEN body.fields["access_token"] ELSE ""]]
    ELSE [err |-> "decode", token |-> Nil]

\* One JSON object as a Client: ClientID is a *string, nil when "clientId" is absent.
DecodeClient(obj) ==
    [ClientID |-> IF "clientId" \in DOMAIN obj THEN Ptr(obj["clientId"]) ELSE Nil,
     ID |-> IF "id" \in DOMAIN obj THEN Ptr(obj["id"]) ELSE Nil]

\* json.NewDecoder(body).Decode(&clients): only a JSON array decodes into []Client.
DecodeClients(body) ==
    IF body.type = "array"
    THEN [err |-> "nil", clients |-> [i \in 1..Len(body.items) |-> DecodeClient(body.items[i])]]
    ELSE [err |-> "decode", clients |-> <<>>]

TokenRequest(a) ==
    [method |-> "POST",
     url |-> a.ServerURL \o "/realms/" \o a.Realm \o "/protocol/openid-connect/token",
     form |-> [grant_type |-> "password", client_id |-> a.ClientID,
               username |-> a.Username, password |-> a.Password],
     via |-> a.client]

\* resp: the answer to the POST of the token request.
getToken(a, resp) ==
    IF resp.kind = "transport_error"
    THEN [token |-> Nil, err |-> "transport", requests |-> <<TokenRequest(a)>>]
    ELSE LET d == DecodeToken(resp.body)
         IN  IF d.err # "nil"
             THEN [token |-> Nil, err |-> d.err, requests |-> <<TokenRequest(a)>>]
             ELSE [token |-> d.token, err |-> "nil", requests |-> <<TokenRequest(a)>>]

\* The client ClientContext put into the context, or http.DefaultClient.
DefaultHTTPClient == Ptr("http.DefaultClient")
HTTPClientOf(ctxClient) == IF ctxClient = Nil THEN DefaultHTTPClient ELSE ctxClient

\* Variant: a failed probe is tried once more.
NewAdminClientRetry(ctxClient, serverURL, username, password, resp) ==
    LET a == [ServerURL |-> serverURL, Realm |-> masterRealm, Username |-> username,
              Password |-> password, ClientID |-> adminClientID,
              client |-> HTTPClientOf(ctxClient)]
        t == getToken(a, resp)
    IN  IF t.err # "nil"
        THEN [client |-> Nil, err |-> t.err, requests |-> t.requests \o t.requests]
        ELSE [client |-> a, err |-> "nil", requests |-> t.requests]

NewAdminClient(ctxClient, serverURL, username, password, resp) ==
    LET a == [ServerURL |-> serverURL, Realm |-> masterRealm, Username |-> username,
              Password |-> password, ClientID |-> adminClientID,
              client |-> HTTPClientOf(ctxClient)]
        t == getToken(a, resp)
    IN  IF t.err # "nil"
        THEN [client |-> Nil, err |-> t.err, requests |-> t.requests]
        ELSE [client |-> a, err |-> "nil", requests |-> t.requests]

\* http.NewRequest fails on a URL that does not parse (a control character).
InvalidRealm == "Te\nst"
URLParses(realm) == realm # InvalidRealm

ClientsRequest(a, realm, token) ==
    [method |-> "GET",
     url |-> a.ServerURL \o "/admin/realms/" \o realm \o "/clients",
     authorization |-> "Bearer " \o token.AccessToken,
     via |-> a.client]

\* The loop over the decoded clients: *c.ClientID of a nil ClientID panics.
RECURSIVE ScanClients(_, _)
ScanClients(clients, clientID) ==
    IF clients = <<>>
    THEN [kind |-> "error", err |-> "client not found", client |-> Nil]
    ELSE IF Head(clients).ClientID = Nil
         THEN [kind |-> "panic", err |-> "nil pointer dereference", client |-> Nil]
         ELSE IF Head(clients).ClientID.val = clientID
              THEN [kind |-> "ok", err |-> "nil", client |-> Head(clients)]
              ELSE ScanClients(Tail(clients), clientID)

\* tokenResp: the answer to the token request; clientsResp: the answer to the
\* GET of the realm's clients (read only when that request is sent).
GetClient(a, realm, clientID, tokenResp, clientsResp) ==
    LET t == getToken(a, tokenResp)
    IN  IF t.err # "nil"
        THEN [kind |-> "error", err |-> t.err, client |-> Nil, requests |-> t.requests]
        ELSE IF ~URLParses(realm)
        THEN [kind |-> "error", err |-> "request", client |-> Nil, requests |-> t.requests]
        ELSE LET sent == t.requests \o <<ClientsRequest(a, realm, t.token)>>
             IN  IF clientsResp.kind = "transport_error"
                 THEN [kind |-> "error", err |-> "transport", client |-> Nil, requests |-> sent]
                 ELSE LET d == DecodeClients(clientsResp.body)
                      IN  IF d.err # "nil"
                          THEN [kind |-> "error", err |-> d.err, client |-> Nil, requests |-> sent]
                          ELSE [requests |-> sent] @@ ScanClients(d.clients, clientID)

(***************************************************************************)
(* State                                                                   *)
(***************************************************************************)
VARIABLES
    pc,        \* "customize": RunContainer applies options; "started"; "failed"
    req,       \* genericContainerReq
    applied,   \* history: the options applied so far, in order
    handle,    \* the *KeycloakContainer RunContainer returned, or Nil
    lastCall,  \* history: the last API call, its inputs, the requests it sent, its result
    adminClient, \* the *AdminClient the caller holds, or Nil
    issued,    \* identity provider: the number of access tokens granted so far
    nCalls     \* the number of admin API calls made so far

vars == <<pc, req, applied, handle, lastCall, adminClient, issued, nCalls>>

\* The runtime's answers: the host or an error, and for each container port
\* its mapping or an error; a port that is not exposed has no mapping.
RuntimeHosts == Hosts \cup {Err}
RuntimeMappings(r) ==
    { m \in [{keycloakPort, keycloakHttpsPort} -> {"32768", "32769", Err}] :
        \A p \in DOMAIN m :
            /\ m[p] \in {HostPortOf(p), Err}
            /\ (\A i \in 1..Len(r.ExposedPorts) : r.ExposedPorts[i] # p) => m[p] = Err }

Init ==
    /\ pc = "customize"
    /\ req = InitialRequest
    /\ applied = <<>>
    /\ handle = Nil
    /\ lastCall = NoCall
    /\ adminClient = Nil
    /\ issued = 0
    /\ nCalls = 0

\* One iteration of the loop over opts in RunContainer: opt.Customize(&req).
CanCustomize == pc = "customize" /\ Len(applied) < MaxOpts

CustomizeWithContextPath ==
    \E c \in ContextPaths :
        /\ CanCustomize
        /\ req' = Customize(Opt("WithContextPath", c), req)
        /\ applied' = Append(applied, Opt("WithContextPath", c))
        /\ UNCHANGED <<pc, handle, lastCall, adminClient, issued, nCalls>>

CustomizeWithRealmImportFile ==
    \E f \in RealmFiles :
        /\ CanCustomize
        /\ req' = Customize(Opt("WithRealmImportFile", f), req)
        /\ applied' = Append(applied, Opt("WithRealmImportFile", f))
        /\ UNCHANGED <<pc, handle, lastCall, adminClient, issued, nCalls>>

CustomizeWithProviders ==
    \E ps \in ProviderArgs :
        /\ CanCustomize
        /\ req' = Customize(Opt("WithProviders", ps), req)
        /\ applied' = Append(applied, Opt("WithProviders", ps))
        /\ UNCHANGED <<pc, handle, lastCall, adminClient, issued, nCalls>>

CustomizeWithTLS ==
    /\ CanCustomize
    /\ req' = Customize(Opt("WithTLS", <<CertFile, KeyFile>>), req)
    /\ applied' = Append(applied, Opt("WithTLS", <<CertFile, KeyFile>>))
    /\ UNCHANGED <<pc, handle, lastCall, adminClient, issued, nCalls>>

CustomizeWithAdminUsername ==
    \E u \in Usernames :
        /\ CanCustomize
        /\ req' = Customize(Opt("WithAdminUsername", u), req)
        /\ applied' = Append(applied, Opt("WithAdminUsername", u))
        /\ UNCHANGED <<pc, handle, lastCall, adminClient, issued, nCalls>>

CustomizeWithAdminPassword ==
    \E p \in Passwords :
        /\ CanCustomize
        /\ req' = Customize(Opt("WithAdminPassword", p), req)
        /\ applied' = Append(applied, Opt("WithAdminPassword", p))
        /\ UNCHANGED <<pc, handle, lastCall, adminClient, issued, nCalls>>

CustomizeWithCustomOption ==
    /\ CanCustomize
    /\ req' = Customize(Opt("WithCustomOption", <<>>), req)
    /\ applied' = Append(applied, Opt("WithCustomOption", <<>>))
    /\ UNCHANGED <<pc, handle, lastCall, adminClient, issued, nCalls>>

CustomizeWithWaitStrategy ==
    /\ CanCustomize
    /\ req' = Customize(Opt("WithWaitStrategy", <<>>), req)
    /\ applied' = Append(applied, Opt("WithWaitStrategy", <<>>))
    /\ UNCHANGED <<pc, handle, lastCall, adminClient, issued, nCalls>>

\* The rest of RunContainer: the default readiness condition, the launch, the handle.
Launch ==
    /\ pc = "customize"
    /\ req' = FinalRequest(req)
    /\ \E started \in BOOLEAN :
          IF started
          THEN pc' = "started" /\ handle' = NewKeycloakContainer(req')
          ELSE pc' = "failed" /\ handle' = Nil
    /\ UNCHANGED <<applied, lastCall, adminClient, issued, nCalls>>

\* The calls on the handle do not change it: a run follows one of them.
CallGetAuthServerURL ==
    /\ pc = "started"
    /\ lastCall = NoCall
    /\ \E host \in RuntimeHosts, mapped \in RuntimeMappings(req) :
          lastCall' = [op |-> "GetAuthServerURL", host |-> host, mapped |-> mapped,
                       result |-> GetAuthServerURL(handle, host, mapped)]
    /\ UNCHANGED <<pc, req, applied, handle, adminClient, issued, nCalls>>

(***************************************************************************)
(* The identity provider, as far as the admin client sees it               *)
(***************************************************************************)
CustomHTTPClient == Ptr("customClient")

\* context.Background(), and the contexts context.WithValue derives from it.
Background == [kind |-> "background"]

\* The key of ClientContext and of the lookup in NewAdminClient: the value
\* http.Client{}.  The struct http.Client has a field of function type
\* (CheckRedirect), so its values are not comparable.
HTTPClientKey == [type |-> "http.Client", comparable |-> FALSE]

\* context.WithValue: panics on a key that is not comparable.
WithValue(parent, key, val) ==
    IF ~key.comparable
    THEN [kind |-> "panic", err |-> "key is not comparable"]
    ELSE [kind |-> "ok",
          ctx |-> [kind |-> "value", parent |-> parent, key |-> key, val |-> val]]

ClientContext(ctx, client) == WithValue(ctx, HTTPClientKey, client)

\* ctx.Value(key): the value of the nearest context that carries the key, or nil.
RECURSIVE Value(_, _)
Value(ctx, key) ==
    IF ctx.kind = "background"
    THEN Nil
    ELSE IF ctx.key = key THEN ctx.val ELSE Value(ctx.parent, key)

\* The contexts a caller can pass to NewAdminClient and GetAdminClient: the
\* background context and those ClientContext returned.
CallerContexts ==
    {Background}
    \cup { r.ctx : r \in { x \in {ClientContext(Background, CustomHTTPClient)} : x.kind = "ok" } }

\* What NewAdminClient finds under the key in the caller's context.
CtxClients == { Value(ctx, HTTPClientKey) : ctx \in CallerContexts }
AdminUsernames == {"admin", "intruder"}
AdminPasswords == {"admin", "guess"}
Realms == {"Test", InvalidRealm}
ClientIDs == {"test-app", "missing"}

\* The clients of a realm as JSON objects; one of them carries no "clientId".
ClientItems ==
    { [clientId |-> "test-app", id |-> "1"], [clientId |-> "test-app", id |-> "2"],
      [clientId |-> "account", id |-> "3"], [id |-> "4"] }
ClientLists == UNION { [1..n -> ClientItems] : n \in 0..MaxClients }

\* The identity provider accepts the admin credentials of the container's environment.
IdpAccepts(username, password) ==
    /\ username = EnvGet(req.Env, keycloakAdminUsernameEnv)
    /\ password = EnvGet(req.Env, keycloakAdminPasswordEnv)

TokenName(n) == "tok" \o ToString(n)

\* The answers a token request can get: no answer, an answer that is not JSON,
\* a fresh token for accepted credentials, an error document for rejected ones.
TokenAnswers(username, password) ==
    {TransportError, Response(502, Garbage)}
    \cup (IF IdpAccepts(username, password)
          THEN {Response(200, JsonObject([access_token |-> TokenName(issued + 1),
                                          token_type |-> "Bearer"]))}
          ELSE {Response(401, JsonObject([error |-> "invalid_grant",
                                          error_description |-> "Invalid user credentials"]))})

Granted(resp) == resp.kind = "response" /\ resp.status = 200

\* The answers the clients request can get, given the tokens granted by then.
ClientsAnswers(request, grantedSoFar) ==
    {TransportError, Response(502, Garbage)}
    \cup (IF \E n \in 1..grantedSoFar : request.authorization = "Bearer " \o TokenName(n)
          THEN {Response(200, JsonArray(l)) : l \in ClientLists}
          ELSE {Response(401, JsonObject([error |-> "HTTP 401 Unauthorized"]))})

\* The URL of the container as the runtime reports it when nothing fails.
ServerURLs ==
    { GetAuthServerURL(handle, h, [p \in {keycloakPort, keycloakHttpsPort} |-> HostPortOf(p)]).url :
        h \in Hosts }

(***************************************************************************)
(* Calls of the admin API                                                  *)
(***************************************************************************)
\* KeycloakContainer.GetAdminClient: the URL, then NewAdminClient with the
\* credentials of the handle.  The client returned is kept in lastCall.
CallGetAdminClient ==
    /\ pc = "started"
    /\ lastCall = NoCall
    /\ \E host \in RuntimeHosts, mapped \in RuntimeMappings(req), ctxClient \in CtxClients,
          resp \in TokenAnswers(handle.username, handle.password) :
          LET u == GetAuthServerURL(handle, host, mapped)
          IN  lastCall' =
                [op |-> "GetAdminClient", host |-> host, mapped |-> mapped,
                 ctxClient |-> ctxClient, tokenResp |-> resp,
                 result |-> IF u.err # "nil"
                            THEN [client |-> Nil, err |-> u.err, requests |-> <<>>]
                            ELSE NewAdminClient(ctxClient, u.url, handle.username,
                                                handle.password, resp)]
    /\ UNCHANGED <<pc, req, applied, handle, adminClient, issued, nCalls>>

\* ClientContext called by the caller with a client of its own.
CallClientContext ==
    /\ pc = "started"
    /\ nCalls < MaxCalls
    /\ lastCall' = [op |-> "ClientContext", client |-> CustomHTTPClient,
                    result |-> ClientContext(Background, CustomHTTPClient)]
    /\ nCalls' = nCalls + 1
    /\ UNCHANGED <<pc, req, applied, handle, adminClient, issued>>

\* NewAdminClient called by the caller with a URL and credentials of its own.
CallNewAdminClient ==
    /\ pc = "started"
    /\ adminClient = Nil
    /\ nCalls < MaxCalls
    /\ \E ctxClient \in CtxClients, serverURL \in ServerURLs, username \in AdminUsernames,
          password \in AdminPasswords :
          \E resp \in TokenAnswers(username, password) :
             LET r == NewAdminClient(ctxClient, serverURL, username, password, resp)
             IN  /\ lastCall' = [op |-> "NewAdminClient", ctxClient |-> ctxClient,
                                 serverURL |-> serverURL, username |-> username,
                                 password |-> password, tokenResp |-> resp, result |-> r]
                 /\ adminClient' = r.client
                 /\ issued' = IF Granted(resp) THEN issued + 1 ELSE issued
    /\ nCalls' = nCalls + 1
    /\ UNCHANGED <<pc, req, applied, handle>>

\* AdminClient.GetClient on the client the caller holds.
CallGetClient ==
    /\ pc = "started"
    /\ adminClient # Nil
    /\ nCalls < MaxCalls
    /\ \E realm \in Realms, clientID \in ClientIDs,
          tokenResp \in TokenAnswers(adminClient.Username, adminClient.Password) :
          LET grantedNow == IF Granted(tokenResp) THEN issued + 1 ELSE issued
              t == getToken(adminClient, tokenResp)
              answers == IF t.err = "nil" /\ URLParses(realm)
                         THEN ClientsAnswers(ClientsRequest(adminClient, realm, t.token),
                                             grantedNow)
                         ELSE {TransportError}   \* no request is sent: never read
          IN  \E clientsResp \in answers :
                 /\ lastCall' = [op |-> "GetClient", realm |-> realm, clientID |-> clientID,
                                 tokenResp |-> tokenResp, clientsResp |-> clientsResp,
                                 grantedBefore |-> issued,
                                 result |-> GetClient(adminClient, realm, clientID,
                                                      tokenResp, clientsResp)]
                 /\ issued' = grantedNow
    /\ nCalls' = nCalls + 1
    /\ UNCHANGED <<pc, req, applied, handle, adminClient>>

Next ==
    \/ CustomizeWithContextPath
    \/ CustomizeWithRealmImportFile
    \/ CustomizeWithProviders
    \/ CustomizeWithTLS
    \/ CustomizeWithAdminUsername
    \/ CustomizeWithAdminPassword
    \/ CustomizeWithCustomOption
    \/ CustomizeWithWaitStrategy
    \/ Launch
    \/ CallGetAuthServerURL
    \/ CallGetAdminClient

Spec == Init /\ [][Next]_vars

\* The admin client against a container started with the default request.
InitAdmin ==
    /\ pc = "started"
    /\ req = FinalRequest(InitialRequest)
    /\ applied = <<>>
    /\ handle = NewKeycloakContainer(FinalRequest(InitialRequest))
    /\ lastCall = NoCall
    /\ adminClient = Nil
    /\ issued = 0
    /\ nCalls = 0

NextAdmin ==
    \/ CallClientContext
    \/ CallNewAdminClient
    \/ CallGetClient

AdminSpec == InitAdmin /\ [][NextAdmin]_vars

(***************************************************************************)
(* The variant of RunContainer and WithRealmImportFile in src/keycloak.go: *)
(* the realm directory is bind-mounted, after filepath.Abs resolved it     *)
(***************************************************************************)
\* What os.Getwd may answer when filepath.Abs resolves a relative path.
WorkingDirs == { [dir |-> <<"home", "app">>, err |-> "nil"], [dir |-> <<>>, err |-> Err] }

\* filepath.Dir: the path without its last element.
Dir(path) == IF Len(path) <= 1 THEN <<>> ELSE SubSeq(path, 1, Len(path) - 1)

\* filepath.Abs of a relative path: the working directory joined with it, an
\* error when the working directory cannot be determined.
Abs(path, wd) ==
    IF wd.err # "nil" THEN [path |-> <<>>, err |-> wd.err] ELSE [path |-> wd.dir \o path, err |-> "nil"]

\* WithRealmImportFile of src/keycloak.go: on an error of filepath.Abs the
\* customizer returns, and the request stays as it was.
WithRealmImportFileMount(realmImportFile, wd, r) ==
    LET a == Abs(Dir(realmImportFile), wd)
    IN  IF a.err # "nil"
        THEN r
        ELSE [r EXCEPT !.Mounts = Append(@, [Source |-> [HostPath |-> a.path],
                                             Target |-> defaultRealmImport]),
                       !.Cmd = processKeycloakArgs(@, <<"--import-realm">>)]

\* The request RunContainer of src/keycloak.go builds before it applies the options.
InitialRequestMount ==
    [Env |-> [k \in {keycloakAdminUsernameEnv, keycloakAdminPasswordEnv} |->
                 IF k = keycloakAdminUsernameEnv THEN defaultKeycloakAdminUsername
                                                  ELSE defaultKeycloakAdminPassword],
     ExposedPorts |-> <<"8080/tcp">>,
     Cmd |-> <<>>,
     Mounts |-> <<>>,
     WaitingFor |-> [kind |-> "nil"]]

\* The handle RunContainer of src/keycloak.go returns for a started container.
NewKeycloakContainerMount(r) ==
    [username |-> EnvGet(r.Env, keycloakAdminUsernameEnv),
     password |-> EnvGet(r.Env, keycloakAdminPasswordEnv),
     contextPath |-> EnvGet(r.Env, keycloakContextPathEnv)]

InitMount ==
    /\ pc = "customize"
    /\ req = InitialRequestMount
    /\ applied = <<>>
    /\ handle = Nil
    /\ lastCall = NoCall
    /\ adminClient = Nil
    /\ issued = 0
    /\ nCalls = 0

\* opt.Customize(&genericContainerReq): the customizer returns nothing, so the
\* loop goes on whatever happened in it.
CustomizeWithRealmImportFileMount ==
    \E f \in RealmFiles, wd \in WorkingDirs :
        /\ CanCustomize
        /\ req' = WithRealmImportFileMount(f, wd, req)
        /\ applied' = Append(applied, Opt("WithRealmImportFileMount", <<f, wd>>))
        /\ UNCHANGED <<pc, handle, lastCall, adminClient, issued, nCalls>>

\* The rest of RunContainer of src/keycloak.go: the request goes to
\* testcontainers.GenericContainer as the options left it.
LaunchMount ==
    /\ pc = "customize"
    /\ \E started \in BOOLEAN :
          IF started
          THEN pc' = "started" /\ handle' = NewKeycloakContainerMount(req)
          ELSE pc' = "failed" /\ handle' = Nil
    /\ UNCHANGED <<req, applied, lastCall, adminClient, issued, nCalls>>

NextMount ==
    \/ CustomizeWithRealmImportFileMount
    \/ CustomizeWithContextPath
    \/ CustomizeWithAdminUsername
    \/ CustomizeWithAdminPassword
    \/ LaunchMount

MountSpec == InitMount /\ [][NextMount]_vars

(***************************************************************************)
(* Vocabulary of the properties                                            *)
(***************************************************************************)
PackageOptionKinds ==
    {"WithContextPath", "WithRealmImportFile", "WithTLS", "WithProviders",
     "WithAdminUsername", "WithAdminPassword"}
FlagOptionKinds == {"WithContextPath", "WithRealmImportFile", "WithTLS"}

\* The flag group an option is documented to contribute to the command.
FlagsOf(opt) ==
    CASE opt.kind = "WithContextPath" ->
            <<"--http-relative-path=" \o (IF opt.arg = "" THEN "/" ELSE opt.arg)>>
      [] opt.kind = "WithRealmImportFile" -> <<"--import-realm">>
      [] opt.kind = "WithTLS" ->
            <<"--https-certificate-file=/opt/keycloak/conf/tls.crt",
              "--https-certificate-key-file=/opt/keycloak/conf/tls.key">>
      [] opt.kind = "WithCustomOption" -> <<"--health-enabled=false">>
      [] OTHER -> <<>>

RECURSIVE FlagGroups(_)
FlagGroups(opts) == IF opts = <<>> THEN <<>> ELSE FlagsOf(Head(opts)) \o FlagGroups(Tail(opts))

Occurrences(seq, x) == Cardinality({i \in 1..Len(seq) : seq[i] = x})
Applications(kind) == Cardinality({i \in 1..Len(applied) : applied[i].kind = kind})
OnlyPackageOptions == \A i \in 1..Len(applied) : applied[i].kind \in PackageOptionKinds
SomeFlagOption == \E i \in 1..Len(applied) : applied[i].kind \in FlagOptionKinds
TLSApplied == \E i \in 1..Len(applied) : applied[i].kind = "WithTLS"

\* C1: after any sequence of the package's options with at least one
\* flag-appending option, the command is the start verb followed by the flag
\* groups of the options in application order; the start verb occurs once and
\* a repeated option contributes its flags once per application.
C1_CommandIsStartVerbThenFlags ==
    (OnlyPackageOptions /\ SomeFlagOption) =>
        /\ req.Cmd = <<"start-dev">> \o FlagGroups(applied)
        /\ Occurrences(req.Cmd, "start-dev") = 1
        /\ Occurrences(req.Cmd, "--import-realm") = Applications("WithRealmImportFile")
        /\ Occurrences(req.Cmd, "--https-certificate-file=/opt/keycloak/conf/tls.crt")
              = Applications("WithTLS")

C1_Witness ==
    /\ pc = "started"
    /\ Len(applied) = 3
    /\ applied[1].kind = "WithRealmImportFile"
    /\ applied[2].kind = "WithTLS"
    /\ applied[3].kind = "WithRealmImportFile"
    /\ Len(req.Cmd) = 5

\* The first customizer that writes the command is the caller-supplied one.
CustomWroteFirst ==
    \E i \in 1..Len(applied) :
        /\ applied[i].kind = "WithCustomOption"
        /\ \A j \in 1..(i - 1) : applied[j].kind \notin FlagOptionKinds

FlagOptionAfterCustom ==
    \E i, j \in 1..Len(applied) :
        i < j /\ applied[i].kind = "WithCustomOption" /\ applied[j].kind \in FlagOptionKinds

\* C2: when a caller-supplied customizer wrote a command not starting with the
\* start verb, the next flag-appending option yields the start verb, then the
\* existing command unchanged, then the new flags; later flag-appending options
\* only append, and the start verb stays single.
C2_StartVerbInsertedBeforeCustomCommand ==
    (CustomWroteFirst /\ FlagOptionAfterCustom) =>
        /\ req.Cmd = <<"start-dev">> \o FlagGroups(applied)
        /\ req.Cmd[2] = "--health-enabled=false"
        /\ Occurrences(req.Cmd, "start-dev") = 1

C2_Witness ==
    /\ Len(applied) = 3
    /\ applied[1].kind = "WithCustomOption"
    /\ applied[2].kind = "WithContextPath"
    /\ applied[3].kind = "WithRealmImportFile"
    /\ Len(req.Cmd) = 4

\* C3: in every state of the launch request, while options are applied and when
\* it is handed to the runtime, the command is empty or begins with the start verb.
C3_CommandEmptyOrStartVerbFirst ==
    req.Cmd = <<>> \/ req.Cmd[1] = "start-dev"

\* C4: on a started container whose runtime reports host and port,
\* GetAuthServerURL returns scheme://host:mappedPort + contextPath, with https
\* and the mapping of 8443/tcp iff the TLS option was applied, else http and
\* the mapping of 8080/tcp.
C4_AuthServerURL ==
    (lastCall.op = "GetAuthServerURL" /\ lastCall.host # Err) =>
        LET port == IF TLSApplied THEN "8443/tcp" ELSE "8080/tcp"
            scheme == IF TLSApplied THEN "https" ELSE "http"
        IN  lastCall.mapped[port] # Err =>
                /\ lastCall.result.err = "nil"
                /\ lastCall.result.url =
                      scheme \o "://" \o lastCall.host \o ":" \o lastCall.mapped[port]
                             \o handle.contextPath

C4_Witness ==
    /\ lastCall.op = "GetAuthServerURL"
    /\ TLSApplied
    /\ lastCall.result.url = "https://localhost:32769/auth"

\* C5: applying WithTLS sets the exposed ports to exactly 8443/tcp, appends
\* exactly the two file copies for tls.crt and tls.key, sets the KEYCLOAK_TLS
\* marker, and appends the certificate and key flags, in that order.
C5_WithTLSEffect ==
    [][ (Len(applied') = Len(applied) + 1 /\ applied'[Len(applied')].kind = "WithTLS") =>
            /\ req'.ExposedPorts = <<"8443/tcp">>
            /\ Len(req'.Files) = Len(req.Files) + 2
            /\ SubSeq(req'.Files, 1, Len(req.Files)) = req.Files
            /\ req'.Files[Len(req.Files) + 1].ContainerFilePath = "/opt/keycloak/conf/tls.crt"
            /\ req'.Files[Len(req.Files) + 1].HostFilePath = CertFile
            /\ req'.Files[Len(req.Files) + 2].ContainerFilePath = "/opt/keycloak/conf/tls.key"
            /\ req'.Files[Len(req.Files) + 2].HostFilePath = KeyFile
            /\ "KEYCLOAK_TLS" \in DOMAIN req'.Env
            /\ req'.Env["KEYCLOAK_TLS"] # ""
            /\ \/ req'.Cmd = req.Cmd \o FlagsOf(applied'[Len(applied')])
               \/ req'.Cmd = <<"start-dev">> \o req.Cmd \o FlagsOf(applied'[Len(applied')])
      ]_vars

C5_Witness ==
    /\ Len(applied) = 2
    /\ applied[1].kind = "WithProviders"
    /\ applied[1].arg # <<>>
    /\ applied[2].kind = "WithTLS"
    /\ req.ExposedPorts = <<"8443/tcp">>
    /\ Len(req.Files) = 4

\* The options applied, without the applications of WithContextPath("").
WithoutEmptyContextPath(opts) ==
    SelectSeq(opts, LAMBDA o : ~(o.kind = "WithContextPath" /\ o.arg = ""))

\* The options applied, with WithContextPath("/") for each WithContextPath("").
WithRootForEmptyContextPath(opts) ==
    [i \in 1..Len(opts) |->
        IF opts[i].kind = "WithContextPath" /\ opts[i].arg = ""
        THEN Opt("WithContextPath", "/")
        ELSE opts[i]]

EmptyContextPathApplied ==
    \E i \in 1..Len(applied) : applied[i].kind = "WithContextPath" /\ applied[i].arg = ""

\* The run of RunContainer with the options opts agrees with the run observed:
\* environment, command, context path of the handle, and the URL for the same
\* answers of the runtime.
SameOutcomeAs(opts) ==
    LET other == FinalRequest(RunOptions(opts, InitialRequest))
        k == NewKeycloakContainer(other)
    IN  /\ other.Env = req.Env
        /\ other.Cmd = req.Cmd
        /\ k.contextPath = handle.contextPath
        /\ GetAuthServerURL(k, lastCall.host, lastCall.mapped) = lastCall.result

\* C6 as stated: applying WithContextPath("") gives the same request, handle
\* context path and URL as not applying it.
C6_EmptyContextPathSameAsNone ==
    (pc = "started" /\ lastCall.op = "GetAuthServerURL" /\ EmptyContextPathApplied) =>
        SameOutcomeAs(WithoutEmptyContextPath(applied))

\* C6 amended: applying WithContextPath("") gives the same request, handle
\* context path and URL as applying WithContextPath("/").
C6_EmptyContextPathSameAsRoot ==
    (pc = "started" /\ lastCall.op = "GetAuthServerURL" /\ EmptyContextPathApplied) =>
        SameOutcomeAs(WithRootForEmptyContextPath(applied))

C6_Witness ==
    /\ pc = "started"
    /\ EmptyContextPathApplied
    /\ lastCall.op = "GetAuthServerURL"
    /\ lastCall.result.url = "http://localhost:32768/"

\* A response whose body json.Decoder cannot decode into a Token.
UndecodableToken(resp) == resp.kind = "response" /\ resp.body.type # "object"

\* C7: constructing an AdminClient with credentials the identity provider
\* rejects returns an error and no client, also when the rejection is a
\* non-2xx answer with a well-formed JSON error body.
C7_RejectedCredentialsFailConstruction ==
    (lastCall.op = "NewAdminClient" /\ ~IdpAccepts(lastCall.username, lastCall.password)) =>
        /\ lastCall.result.err # "nil"
        /\ lastCall.result.client = Nil
        /\ adminClient = Nil

\* C8: NewAdminClient sends exactly one token request (password grant, client
\* admin-cli, realm master, the given credentials); on a transport error or an
\* undecodable body it returns an error and no client, without a second
\* attempt, and otherwise it returns a client.
C8_OneProbeNoRetry ==
    lastCall.op = "NewAdminClient" =>
        LET rs == lastCall.result.requests
        IN  /\ Len(rs) = 1
            /\ rs[1].method = "POST"
            /\ rs[1].url = lastCall.serverURL \o "/realms/master/protocol/openid-connect/token"
            /\ rs[1].form = [grant_type |-> "password", client_id |-> "admin-cli",
                             username |-> lastCall.username, password |-> lastCall.password]
            /\ IF lastCall.tokenResp.kind = "transport_error" \/ UndecodableToken(lastCall.tokenResp)
               THEN lastCall.result.err # "nil" /\ lastCall.result.client = Nil
                    /\ adminClient = Nil
               ELSE lastCall.result.err = "nil" /\ lastCall.result.client # Nil
                    /\ adminClient = lastCall.result.client

C8_Witness ==
    /\ lastCall.op = "NewAdminClient"
    /\ UndecodableToken(lastCall.tokenResp)
    /\ lastCall.result.client = Nil
    /\ nCalls = 1

\* C9: every GetClient call sends its own token request first, sends the
\* clients GET only when that token request succeeded, and sends as bearer
\* token the access token granted in that same call.
C9_GetClientReauthenticates ==
    lastCall.op = "GetClient" =>
        LET rs == lastCall.result.requests
        IN  /\ Len(rs) >= 1
            /\ rs[1].method = "POST"
            /\ \A i \in 2..Len(rs) :
                  /\ rs[i].method = "GET"
                  /\ Granted(lastCall.tokenResp)
                  /\ rs[i].authorization = "Bearer " \o TokenName(lastCall.grantedBefore + 1)
            /\ ~Granted(lastCall.tokenResp) => Len(rs) = 1

\* C10: when authentication and the clients request succeed and the answer
\* decodes as a list, GetClient returns a record with the requested client
\* identifier if the list holds one and 'client not found' (and no record) if
\* it holds none; 'client not found' is never the result of a transport or
\* decode failure.
C10_GetClientFindsOrReportsNotFound ==
    lastCall.op = "GetClient" =>
        /\ (/\ Granted(lastCall.tokenResp)
            /\ Len(lastCall.result.requests) = 2
            /\ lastCall.clientsResp.kind = "response"
            /\ lastCall.clientsResp.body.type = "array") =>
              LET items == lastCall.clientsResp.body.items
              IN  IF \E i \in 1..Len(items) :
                        "clientId" \in DOMAIN items[i] /\ items[i]["clientId"] = lastCall.clientID
                  THEN /\ lastCall.result.kind = "ok"
                       /\ lastCall.result.client.ClientID = Ptr(lastCall.clientID)
                  ELSE /\ lastCall.result.kind = "error"
                       /\ lastCall.result.err = "client not found"
                       /\ lastCall.result.client = Nil
        /\ lastCall.result.err = "client not found" =>
              /\ lastCall.clientsResp.kind = "response"
              /\ lastCall.clientsResp.body.type = "array"

\* The answer to the clients request of the last GetClient call was decoded as a list.
ClientListDecoded ==
    /\ lastCall.op = "GetClient"
    /\ Len(lastCall.result.requests) = 2
    /\ lastCall.clientsResp.kind = "response"
    /\ lastCall.clientsResp.body.type = "array"

\* The positions of the records of items whose "clientId" is id.
Matches(items, id) ==
    {i \in 1..Len(items) : "clientId" \in DOMAIN items[i] /\ items[i]["clientId"] = id}

\* C11: when the decoded list holds several records with the requested client
\* identifier, GetClient returns the first of them in the server's order.
C11_FirstOfSeveralMatches ==
    ClientListDecoded =>
        LET items == lastCall.clientsResp.body.items
            m == Matches(items, lastCall.clientID)
        IN  Cardinality(m) >= 2 =>
                LET first == CHOOSE i \in m : \A j \in m : i <= j
                IN  /\ lastCall.result.kind = "ok"
                    /\ lastCall.result.client = DecodeClient(items[first])

\* The runtime did not report the host, or the mapping of the active port, to
\* the last call on the handle.
RuntimeFailedToResolve ==
    /\ lastCall.op \in {"GetAuthServerURL", "GetAdminClient"}
    /\ \/ lastCall.host = Err
       \/ lastCall.mapped[IF TLSApplied THEN "8443/tcp" ELSE "8080/tcp"] = Err

\* C12: when the runtime cannot report the host or the mapping of the active
\* port, GetAuthServerURL returns an error and the empty string, and
\* GetAdminClient returns an error and no client without sending a token request.
C12_UnresolvedURLIsAnError ==
    RuntimeFailedToResolve =>
        IF lastCall.op = "GetAuthServerURL"
        THEN /\ lastCall.result.err # "nil"
             /\ lastCall.result.url = ""
        ELSE /\ lastCall.result.err # "nil"
             /\ lastCall.result.err = GetAuthServerURL(handle, lastCall.host, lastCall.mapped).err
             /\ lastCall.result.client = Nil
             /\ lastCall.result.requests = <<>>

C12_Witness ==
    /\ lastCall.op = "GetAdminClient"
    /\ TLSApplied
    /\ lastCall.host = "localhost"
    /\ lastCall.mapped["8443/tcp"] = Err
    /\ lastCall.result.err = "port"
    /\ lastCall.result.requests = <<>>

WaitStrategySupplied == \E i \in 1..Len(applied) : applied[i].kind = "WithWaitStrategy"

\* C13: the request handed to the runtime carries the readiness condition a
\* customizer set, unchanged; when none set one, it carries the conjunction of
\* an HTTP check on the recorded context path ("/" when none is recorded), on
\* port 8443/tcp with TLS and relaxed verification iff the TLS marker is set,
\* and the log line "Running the server".
C13_DefaultReadinessOnlyWhenUnset ==
    pc # "customize" =>
        IF WaitStrategySupplied
        THEN req.WaitingFor = [kind |-> "ForListeningPort", port |-> "8080/tcp"]
        ELSE /\ req.WaitingFor.kind = "ForAll"
             /\ req.WaitingFor.path = (IF "KEYCLOAK_CONTEXT_PATH" \in DOMAIN req.Env
                                       THEN req.Env["KEYCLOAK_CONTEXT_PATH"] ELSE "/")
             /\ req.WaitingFor.log = "Running the server"
             /\ IF "KEYCLOAK_TLS" \in DOMAIN req.Env
                THEN /\ req.WaitingFor.port = "8443/tcp"
                     /\ req.WaitingFor.tls
                     /\ req.WaitingFor.allowInsecure
                ELSE /\ req.WaitingFor.port = "default"
                     /\ ~req.WaitingFor.tls
                     /\ ~req.WaitingFor.allowInsecure

C13_Witness ==
    /\ pc = "started"
    /\ WaitStrategySupplied
    /\ TLSApplied
    /\ "KEYCLOAK_CONTEXT_PATH" \in DOMAIN req.Env
    /\ req.WaitingFor.kind = "ForListeningPort"

\* filepath.Abs failed in an application of the realm-import option.
PathResolutionFailed ==
    \E i \in 1..Len(applied) :
        applied[i].kind = "WithRealmImportFileMount" /\ applied[i].arg[2].err # "nil"

\* C14: when resolving the host path of the realm-import file fails, the
\* request is not handed to the container runtime: the run reaches neither
\* "started" nor "failed", the two outcomes of the runtime having received it.
C14_FailedPathResolutionStopsLaunch ==
    PathResolutionFailed => pc \notin {"started", "failed"}

\* The options applied are options of the package, each kind at most once.
DistinctConcerns ==
    /\ OnlyPackageOptions
    /\ \A i, j \in 1..Len(applied) : applied[i].kind = applied[j].kind => i = j

\* The options opts in the order f, a permutation of their positions.
Permuted(opts, f) == [i \in 1..Len(opts) |-> opts[f[i]]]

\* The sequences s and t hold the same elements the same number of times.
SameElements(s, t) ==
    /\ Len(s) = Len(t)
    /\ \A i \in 1..Len(s) : Occurrences(s, s[i]) = Occurrences(t, s[i])

\* C15 as stated: every permutation of the options applied gives the same
\* environment, exposed-port list and file-copy list, and a command with the
\* same flags.
C15_OrderAffectsOnlyCommand ==
    (pc = "customize" /\ DistinctConcerns) =>
        \A f \in Permutations(1..Len(applied)) :
            LET other == RunOptions(Permuted(applied, f), InitialRequest)
            IN  /\ other.Env = req.Env
                /\ other.ExposedPorts = req.ExposedPorts
                /\ other.Files = req.Files
                /\ SameElements(other.Cmd, req.Cmd)

\* C15 amended: every permutation of the options applied gives the same
\* environment and exposed-port list, the same file copies and the same flags;
\* the order of the file copies and of the flags follows the application order.
C15_OrderAffectsOnlyListOrder ==
    (pc = "customize" /\ DistinctConcerns) =>
        \A f \in Permutations(1..Len(applied)) :
            LET other == RunOptions(Permuted(applied, f), InitialRequest)
            IN  /\ other.Env = req.Env
                /\ other.ExposedPorts = req.ExposedPorts
                /\ SameElements(other.Files, req.Files)
                /\ SameElements(other.Cmd, req.Cmd)
                /\ other.Cmd # <<>> => other.Cmd[1] = "start-dev"

C15_Witness ==
    /\ pc = "customize"
    /\ DistinctConcerns
    /\ Len(applied) = 3
    /\ applied[1].kind = "WithTLS"
    /\ applied[2].kind = "WithRealmImportFile"
    /\ applied[3].kind = "WithAdminUsername"
    /\ Len(req.Files) = 3
    /\ req.Files[3].ContainerFilePath = "/opt/keycloak/data/import/realm-export.json"

\* The documented default of the options that take a string.
DefaultArgOf(kind) == IF kind = "WithContextPath" THEN "/" ELSE "admin"

\* The options opts, with the default value for each empty-string argument.
WithDefaultsForEmpty(opts) ==
    [i \in 1..Len(opts) |->
        IF /\ opts[i].kind \in {"WithAdminUsername", "WithAdminPassword", "WithContextPath"}
           /\ opts[i].arg = ""
        THEN Opt(opts[i].kind, DefaultArgOf(opts[i].kind))
        ELSE opts[i]]

\* C16: after WithAdminUsername, WithAdminPassword or WithContextPath the
\* request records the argument verbatim, or 'admin', 'admin' and '/' for the
\* empty string (the context path also as the last flag of the command), and
\* the request is the one the same options give with the defaults written out.
C16_EmptyStringFallsBackToDefault ==
    (pc = "customize" /\ Len(applied) > 0) =>
        LET o == applied[Len(applied)]
            recorded == IF o.arg = "" THEN DefaultArgOf(o.kind) ELSE o.arg
        IN  /\ o.kind = "WithAdminUsername" => req.Env["KEYCLOAK_ADMIN"] = recorded
            /\ o.kind = "WithAdminPassword" => req.Env["KEYCLOAK_ADMIN_PASSWORD"] = recorded
            /\ o.kind = "WithContextPath" =>
                  /\ req.Env["KEYCLOAK_CONTEXT_PATH"] = recorded
                  /\ req.Cmd[Len(req.Cmd)] = "--http-relative-path=" \o recorded
            /\ req = RunOptions(WithDefaultsForEmpty(applied), InitialRequest)

C16_Witness ==
    /\ pc = "customize"
    /\ applied = << Opt("WithAdminUsername", "testUsername"), Opt("WithContextPath", ""),
                    Opt("WithAdminUsername", "") >>
    /\ req.Env["KEYCLOAK_ADMIN"] = "admin"
    /\ req.Cmd = <<"start-dev", "--http-relative-path=/">>

\* The step applies an option of the given kind.
Applies(kind) ==
    /\ Len(applied') = Len(applied) + 1
    /\ applied'[Len(applied')].kind = kind

\* C17: applying WithRealmImportFile appends one file copy, of the host file to
\* /opt/keycloak/data/import/<base name>, and the single flag --import-realm,
\* and leaves the environment and the exposed ports as they were; applying
\* WithProviders with n paths appends n file copies to
\* /opt/keycloak/providers/<base name> in argument order and changes nothing
\* else of the request, also for n = 0.
C17_RealmAndProvidersEffect ==
    [][ LET arg == applied'[Len(applied')].arg
            n == Len(req.Files)
        IN  /\ Applies("WithRealmImportFile") =>
                  /\ Len(req'.Files) = n + 1
                  /\ SubSeq(req'.Files, 1, n) = req.Files
                  /\ req'.Files[n + 1].HostFilePath = arg
                  /\ req'.Files[n + 1].ContainerFilePath =
                        "/opt/keycloak/data/import/" \o arg[Len(arg)]
                  /\ \/ req'.Cmd = Append(req.Cmd, "--import-realm")
                     \/ req'.Cmd = <<"start-dev">> \o Append(req.Cmd, "--import-realm")
                  /\ req'.Env = req.Env
                  /\ req'.ExposedPorts = req.ExposedPorts
            /\ Applies("WithProviders") =>
                  /\ Len(req'.Files) = n + Len(arg)
                  /\ SubSeq(req'.Files, 1, n) = req.Files
                  /\ \A i \in 1..Len(arg) :
                        /\ req'.Files[n + i].HostFilePath = arg[i]
                        /\ req'.Files[n + i].ContainerFilePath =
                              "/opt/keycloak/providers/" \o arg[i][Len(arg[i])]
                  /\ req'.Cmd = req.Cmd
                  /\ req'.Env = req.Env
                  /\ req'.ExposedPorts = req.ExposedPorts
                  /\ req'.WaitingFor = req.WaitingFor
      ]_vars

C17_Witness ==
    /\ Len(applied) = 3
    /\ applied[1].kind = "WithProviders"
    /\ applied[1].arg = <<>>
    /\ applied[2].kind = "WithRealmImportFile"
    /\ applied[3].kind = "WithProviders"
    /\ Len(applied[3].arg) = 2
    /\ req.Cmd = <<"start-dev", "--import-realm">>
    /\ Len(req.Files) = 3
    /\ req.Files[1].ContainerFilePath = "/opt/keycloak/data/import/realm-export.json"
    /\ req.Files[3].ContainerFilePath = "/opt/keycloak/providers/b.jar"

\* C18: ClientContext returns a context that carries the supplied client, an
\* AdminClient built from such a context sends every request through that
\* client, and one built from a context without a client sends every request
\* through the default client.
C18_RequestsGoThroughContextClient ==
    /\ lastCall.op = "ClientContext" =>
          /\ lastCall.result.kind = "ok"
          /\ Value(lastCall.result.ctx, HTTPClientKey) = lastCall.client
    /\ lastCall.op = "NewAdminClient" =>
          \A i \in 1..Len(lastCall.result.requests) :
              lastCall.result.requests[i].via =
                  (IF lastCall.ctxClient = Nil THEN Ptr("http.DefaultClient")
                   ELSE lastCall.ctxClient)
    /\ lastCall.op = "GetClient" =>
          \A i \in 1..Len(lastCall.result.requests) :
              lastCall.result.requests[i].via = adminClient.client

\* The credential the options applied ask for: the argument of the last
\* application of the option kind, 'admin' for the empty string or when the
\* option was not applied.
CredentialAskedFor(kind) ==
    LET idx == {i \in 1..Len(applied) : applied[i].kind = kind}
    IN  IF idx = {}
        THEN "admin"
        ELSE LET last == CHOOSE i \in idx : \A j \in idx : j <= i
             IN  IF applied[last].arg = "" THEN "admin" ELSE applied[last].arg

\* C19: a handle exists exactly when the runtime reported the container
\* started; its username and password, which GetAdminClient sends in its token
\* request, are the KEYCLOAK_ADMIN and KEYCLOAK_ADMIN_PASSWORD values of the
\* request handed to the runtime: those of the last WithAdminUsername and
\* WithAdminPassword applied, or 'admin' and 'admin'.
C19_HandleRemembersFinalCredentials ==
    /\ handle # Nil <=> pc = "started"
    /\ pc = "started" =>
          /\ req.Env["KEYCLOAK_ADMIN"] = CredentialAskedFor("WithAdminUsername")
          /\ req.Env["KEYCLOAK_ADMIN_PASSWORD"] = CredentialAskedFor("WithAdminPassword")
          /\ handle.username = req.Env["KEYCLOAK_ADMIN"]
          /\ handle.password = req.Env["KEYCLOAK_ADMIN_PASSWORD"]
    /\ (lastCall.op = "GetAdminClient" /\ lastCall.result.requests # <<>>) =>
          /\ lastCall.result.requests[1].form.username = req.Env["KEYCLOAK_ADMIN"]
          /\ lastCall.result.requests[1].form.password = req.Env["KEYCLOAK_ADMIN_PASSWORD"]

C19_Witness ==
    /\ lastCall.op = "GetAdminClient"
    /\ applied = << Opt("WithAdminUsername", "testUsername"),
                    Opt("WithAdminPassword", "testPassword"),
                    Opt("WithAdminPassword", "") >>
    /\ lastCall.result.err = "nil"
    /\ lastCall.result.requests[1].form.username = "testUsername"
    /\ lastCall.result.requests[1].form.password = "admin"

\* C20: GetClient completes with a record or with an error value, whatever
\* list the server returns; it never aborts.
C20_GetClientNeverAborts ==
    lastCall.op = "GetClient" => lastCall.result.kind \in {"ok", "error"}

\* The paths a context-path flag of the command can carry.
FlagPaths == ContextPaths \cup {"/"}

\* The positions of the context-path flags in the command.
ContextPathFlags(cmd) ==
    {i \in 1..Len(cmd) : \E p \in FlagPaths : cmd[i] = "--http-relative-path=" \o p}

\* The path of the last context-path flag of the command.
LastFlagPath(cmd) ==
    LET last == CHOOSE i \in ContextPathFlags(cmd) : \A j \in ContextPathFlags(cmd) : j <= i
    IN  CHOOSE p \in FlagPaths : cmd[last] = "--http-relative-path=" \o p

\* C21: after options of the package with WithContextPath applied at least
\* once, the command holds one --http-relative-path flag per application, and
\* the path of the last of them is the context path of the handle, the path
\* the default readiness check probes and the path GetAuthServerURL appends.
C21_ContextPathIsLastFlag ==
    (pc = "started" /\ OnlyPackageOptions /\ Applications("WithContextPath") >= 1) =>
        /\ Cardinality(ContextPathFlags(req.Cmd)) = Applications("WithContextPath")
        /\ handle.contextPath = LastFlagPath(req.Cmd)
        /\ req.WaitingFor.kind = "ForAll"
        /\ req.WaitingFor.path = LastFlagPath(req.Cmd)
        /\ (lastCall.op = "GetAuthServerURL" /\ lastCall.result.err = "nil") =>
              LET port == IF TLSApplied THEN "8443/tcp" ELSE "8080/tcp"
              IN  lastCall.result.url =
                      (IF TLSApplied THEN "https" ELSE "http") \o "://" \o lastCall.host
                          \o ":" \o lastCall.mapped[port] \o LastFlagPath(req.Cmd)

C21_Witness ==
    /\ pc = "started"
    /\ applied = << Opt("WithContextPath", ""), Opt("WithRealmImportFile",
                        <<"testdata", "realm-export.json">>), Opt("WithContextPath", "/auth") >>
    /\ lastCall.op = "GetAuthServerURL"
    /\ lastCall.result.url = "http://localhost:32768/auth"
    /\ req.WaitingFor.path = "/auth"
    /\ req.Cmd[Len(req.Cmd)] = "--http-relative-path=/auth"

\* C22: after options of the package, TLS is enabled on the handle iff the
\* KEYCLOAK_TLS marker is set iff the readiness check uses HTTPS on 8443/tcp;
\* the port GetAuthServerURL asks the runtime for is 8443/tcp with TLS and
\* 8080/tcp without, and it is one of the exposed ports of the request.
C22_PortsAgreeWithRequest ==
    (pc = "started" /\ OnlyPackageOptions) =>
        LET marker == "KEYCLOAK_TLS" \in DOMAIN req.Env /\ req.Env["KEYCLOAK_TLS"] # ""
            port == IF marker THEN "8443/tcp" ELSE "8080/tcp"
        IN  /\ handle.enableTLS <=> marker
            /\ marker <=> (req.WaitingFor.tls /\ req.WaitingFor.port = "8443/tcp")
            /\ QueriedPort(handle) = port
            /\ \E i \in 1..Len(req.ExposedPorts) : req.ExposedPorts[i] = port
            /\ (lastCall.op = "GetAuthServerURL" /\ lastCall.host # Err) =>
                  (lastCall.result.err = "nil" <=> lastCall.mapped[port] # Err)

C22_Witness ==
    /\ pc = "started"
    /\ OnlyPackageOptions
    /\ Len(applied) = 2
    /\ applied[1].kind = "WithProviders"
    /\ applied[2].kind = "WithTLS"
    /\ handle.enableTLS
    /\ req.ExposedPorts = <<"8443/tcp">>
    /\ req.WaitingFor.port = "8443/tcp"
    /\ lastCall.op = "GetAuthServerURL"
    /\ lastCall.result.url = "https://localhost:32769"

====
